---- MODULE Spec2Model ----
(***************************************************************************)
(* Model of preprocess_schemas.py: the schema preprocessing pipeline that  *)
(* prunes, flattens and derives request scenarios from JSON Schema         *)
(* documents.                                                              *)
(*                                                                         *)
(* A JSON value is a tagged record: a mapping is Dict(m) with m a function *)
(* from key strings to values, a sequence is List(l), a string is Str(s),  *)
(* a number is Num(n).  Strings are TLA+ strings, taken apart with Len and *)
(* SubSeq and put together with \o, as the Python code does.               *)
(***************************************************************************)
EXTENDS Integers, Sequences, FiniteSets, TLC

VARIABLES
    call,                    \* one function call: the function and its arguments
    ret,                     \* what the call returned and left in its arguments
    files,                   \* the input tree: relative path -> [schema, defs_order]
    output_dir,              \* the parts of the output root's path
    output_files,            \* the output tree: relative path -> document
    schemas_with_scenarios,  \* the membership set built by the first pass
    pending,                 \* the files the running pass has not visited yet
    phase,                   \* "idle", "start", "pass1", "pass2" or "done"
    trace                    \* per processed file: schema_dir, base, scenarios, written

vars == <<call, ret, files, output_dir, output_files, schemas_with_scenarios, pending, phase, trace>>

driverVars == <<files, output_dir, output_files, schemas_with_scenarios, pending, phase, trace>>

(***************************************************************************)
(* JSON values                                                             *)
(***************************************************************************)
Str(s) == [t |-> "str", v |-> s]
Num(n) == [t |-> "int", v |-> n]
List(l) == [t |-> "list", v |-> l]
Dict(m) == [t |-> "dict", v |-> m]

EmptyMap == [k \in {} |-> Str("")]
EmptyDict == Dict(EmptyMap)

IsDict(x) == x.t = "dict"
IsList(x) == x.t = "list"
IsStr(x) == x.t = "str"

Keys(d) == DOMAIN d.v
Has(d, k) == k \in DOMAIN d.v
Get(d, k) == d.v[k]
Put(d, k, x) == Dict([j \in (DOMAIN d.v) \cup {k} |-> IF j = k THEN x ELSE d.v[j]])
Del(d, k) == Dict([j \in (DOMAIN d.v) \ {k} |-> d.v[j]])
Range(l) == {l[i] : i \in DOMAIN l}

(***************************************************************************)
(* Python string methods                                                   *)
(***************************************************************************)
startswith(s, p) == Len(s) >= Len(p) /\ SubSeq(s, 1, Len(p)) = p
endswith(s, p) == Len(s) >= Len(p) /\ SubSeq(s, Len(s) - Len(p) + 1, Len(s)) = p
contains(s, p) == \E i \in 1..(Len(s) - Len(p) + 1) : SubSeq(s, i, i + Len(p) - 1) = p

(***************************************************************************)
(* remove_extension_defs                                                   *)
(***************************************************************************)
\* has_external_ref reading "a reference" as a pure-reference node
has_external_ref_pure_only(all_of) ==
    \E i \in DOMAIN all_of :
        /\ IsDict(all_of[i])
        /\ Keys(all_of[i]) = {"$ref"}
        /\ ~startswith(Get(all_of[i], "$ref").v, "#/")

\* the inner loop over all_of: some mapping item carries a "$ref" that does
\* not start with "#/"
has_external_ref(all_of) ==
    \E i \in DOMAIN all_of :
        /\ IsDict(all_of[i])
        /\ Has(all_of[i], "$ref")
        /\ ~startswith(Get(all_of[i], "$ref").v, "#/")

defs_to_remove(schema) ==
    {n \in Keys(Get(schema, "$defs")) :
        LET def_schema == Get(schema, "$defs").v[n]
        IN  /\ IsDict(def_schema)
            /\ Has(def_schema, "allOf")
            /\ has_external_ref(Get(def_schema, "allOf").v)}

remove_extension_defs(schema) ==
    IF ~Has(schema, "$defs") THEN schema
    ELSE LET defs == Get(schema, "$defs")
             kept == Dict([n \in Keys(defs) \ defs_to_remove(schema) |-> defs.v[n]])
         IN  IF Keys(kept) = {} THEN Del(schema, "$defs")
             ELSE Put(schema, "$defs", kept)

\* the names schema["$defs"] holds
DefKeysOf(schema) == IF Has(schema, "$defs") THEN Keys(Get(schema, "$defs")) ELSE {}

(***************************************************************************)
(* inline_internal_refs                                                    *)
(***************************************************************************)
\* the keys of a mapping in one fixed iteration order
RECURSIVE KeySeq(_)
KeySeq(S) ==
    IF S = {} THEN <<>>
    ELSE LET k == CHOOSE x \in S : TRUE IN <<k>> \o KeySeq(S \ {k})

\* ref.split("/")[-1]
RECURSIVE LastSegment(_)
LastSegment(s) ==
    IF ~contains(s, "/") THEN s
    ELSE LET i == CHOOSE j \in 1..Len(s) : SubSeq(s, j, j) = "/"
         IN  LastSegment(SubSeq(s, i + 1, Len(s)))

\* "$ref" in obj and len(obj) == 1
IsPureRef(obj) == IsDict(obj) /\ Keys(obj) = {"$ref"}

\* inline_unguarded is inline_rec without the test `def_name not in processed`.
\* The call inline_internal_refs(obj, defs, processed).  The result is
\* [val, processed, ok]: the value returned, the set `processed` as the call
\* leaves it (the set is one object shared by the whole recursion), and
\* whether the recursion stayed within `fuel` nested calls.
RECURSIVE inline_rec(_, _, _, _), inline_dict(_, _, _, _, _, _), inline_list(_, _, _, _, _)
inline_unguarded(obj, defs, processed, fuel) ==
    IF fuel = 0 THEN [val |-> obj, processed |-> processed, ok |-> FALSE]
    ELSE IF IsDict(obj) THEN
        IF IsPureRef(obj) THEN
            LET ref == Get(obj, "$ref").v
                def_name == LastSegment(ref)
            IN  IF startswith(ref, "#/$defs/") /\ Has(defs, def_name)
                THEN LET r == inline_rec(Get(defs, def_name), defs, processed \cup {def_name}, fuel - 1)
                     IN  [val |-> r.val, processed |-> r.processed \ {def_name}, ok |-> r.ok]
                ELSE [val |-> obj, processed |-> processed, ok |-> TRUE]
        ELSE inline_dict(obj, KeySeq(Keys(obj)), EmptyDict, defs, processed, fuel - 1)
    ELSE IF IsList(obj) THEN inline_list(obj.v, <<>>, defs, processed, fuel - 1)
    ELSE [val |-> obj, processed |-> processed, ok |-> TRUE]

inline_rec(obj, defs, processed, fuel) ==
    IF fuel = 0 THEN [val |-> obj, processed |-> processed, ok |-> FALSE]
    ELSE IF IsDict(obj) THEN
        IF IsPureRef(obj) THEN
            LET ref == Get(obj, "$ref").v
                def_name == LastSegment(ref)
            IN  IF startswith(ref, "#/$defs/") /\ def_name \notin processed /\ Has(defs, def_name)
                THEN LET r == inline_rec(Get(defs, def_name), defs, processed \cup {def_name}, fuel - 1)
                     IN  [val |-> r.val, processed |-> r.processed \ {def_name}, ok |-> r.ok]
                ELSE [val |-> obj, processed |-> processed, ok |-> TRUE]
        ELSE inline_dict(obj, KeySeq(Keys(obj)), EmptyDict, defs, processed, fuel - 1)
    ELSE IF IsList(obj) THEN inline_list(obj.v, <<>>, defs, processed, fuel - 1)
    ELSE [val |-> obj, processed |-> processed, ok |-> TRUE]

\* for key, value in obj.items(): result[key] = inline_internal_refs(value, ...)
inline_dict(obj, ks, result, defs, processed, fuel) ==
    IF ks = <<>> THEN [val |-> result, processed |-> processed, ok |-> TRUE]
    ELSE LET r == inline_rec(Get(obj, Head(ks)), defs, processed, fuel)
         IN  IF ~r.ok THEN [val |-> result, processed |-> r.processed, ok |-> FALSE]
             ELSE inline_dict(obj, Tail(ks), Put(result, Head(ks), r.val), defs, r.processed, fuel)

\* [inline_internal_refs(item, defs, processed) for item in obj]
inline_list(items, result, defs, processed, fuel) ==
    IF items = <<>> THEN [val |-> List(result), processed |-> processed, ok |-> TRUE]
    ELSE LET r == inline_rec(Head(items), defs, processed, fuel)
         IN  IF ~r.ok THEN [val |-> List(result), processed |-> r.processed, ok |-> FALSE]
             ELSE inline_list(Tail(items), Append(result, r.val), defs, r.processed, fuel)

\* the nesting of calls within which a call must return; the inputs hold
\* three definitions, each nested at most four deep
MaxDepth == 12

inline_internal_refs(obj, defs, processed) == inline_rec(obj, defs, processed, MaxDepth)

(***************************************************************************)
(* flatten_allof_in_defs                                                   *)
(***************************************************************************)
\* list(set(l)): the distinct elements of l, in the order the set yields
\* them.  hash_order lists strings in the process's set iteration order.
RECURSIVE InOrder(_, _)
InOrder(S, hash_order) ==
    IF hash_order = <<>> THEN KeySeq(S)
    ELSE IF Head(hash_order) \in S
         THEN <<Head(hash_order)>> \o InOrder(S \ {Head(hash_order)}, Tail(hash_order))
         ELSE InOrder(S, Tail(hash_order))

list_of_set(l, hash_order) ==
    LET ss == InOrder({x.v : x \in Range(l)}, hash_order)
    IN  [i \in DOMAIN ss |-> Str(ss[i])]

\* the check `all_internal`: no mapping item has a "$ref" outside "#/"
all_internal(all_of) ==
    \A i \in DOMAIN all_of :
        (IsDict(all_of[i]) /\ Has(all_of[i], "$ref"))
            => startswith(Get(all_of[i], "$ref").v, "#/")

\* for k, v in resolved.items(): the three-way merge into `merged`
merge_resolved(merged, resolved, hash_order) ==
    LET ks == Keys(merged) \cup (Keys(resolved) \ {"title", "description", "allOf"})
    IN  Dict([k \in ks |->
            IF ~Has(resolved, k) THEN Get(merged, k)
            ELSE IF k = "properties" /\ Has(merged, k)
                 THEN LET old == Get(merged, k)
                          new == Get(resolved, k)
                      IN  Dict([p \in Keys(old) \cup Keys(new) |->
                                 IF Has(new, p) THEN Get(new, p) ELSE Get(old, p)])
            ELSE IF k = "required" /\ Has(merged, k)
                 THEN List(list_of_set(Get(merged, k).v \o Get(resolved, k).v, hash_order))
            ELSE Get(resolved, k)])

RECURSIVE merge_items(_, _, _, _)
merge_items(items, merged, defs, hash_order) ==
    IF items = <<>> THEN merged
    ELSE LET resolved == inline_internal_refs(Head(items), defs, {}).val
         IN  merge_items(Tail(items), merge_resolved(merged, resolved, hash_order),
                         defs, hash_order)

\* the body of the loop for one def_name; defs is the mapping as the
\* earlier iterations left it, def_schema the entry the loop snapshot holds
flatten_def(defs, def_name, def_schema, hash_order) ==
    IF IsDict(def_schema) /\ Has(def_schema, "allOf") /\ all_internal(Get(def_schema, "allOf").v)
    THEN LET merged == merge_items(Get(def_schema, "allOf").v, EmptyDict, defs, hash_order)
             titled == IF Has(def_schema, "title")
                       THEN Put(merged, "title", Get(def_schema, "title")) ELSE merged
             described == IF Has(def_schema, "description")
                          THEN Put(titled, "description", Get(def_schema, "description"))
                          ELSE titled
         IN  Put(defs, def_name, described)
    ELSE defs

RECURSIVE flatten_loop(_, _, _, _)
flatten_loop(defs, snapshot, order, hash_order) ==
    IF order = <<>> THEN defs
    ELSE flatten_loop(flatten_def(defs, Head(order), Get(snapshot, Head(order)), hash_order),
                      snapshot, Tail(order), hash_order)

\* order is the iteration order of schema["$defs"] (the document's key order)
flatten_allof_in_defs(schema, order, hash_order) ==
    IF ~Has(schema, "$defs") THEN schema
    ELSE Put(schema, "$defs",
             flatten_loop(Get(schema, "$defs"), Get(schema, "$defs"), order, hash_order))

(***************************************************************************)
(* Strings: ordering, str.capitalize, pathlib                              *)
(***************************************************************************)
\* the characters the documents use, in code point order
Chars == "#$./0123456789:ABCDEFGHIJKLMNOPQRSTUVWXYZ\\_abcdefghijklmnopqrstuvwxyz"
Lower == "abcdefghijklmnopqrstuvwxyz"
Upper == "ABCDEFGHIJKLMNOPQRSTUVWXYZ"

CharAt(s, i) == SubSeq(s, i, i)
Rest(s) == SubSeq(s, 2, Len(s))
IndexIn(alphabet, c) ==
    IF \E i \in 1..Len(alphabet) : CharAt(alphabet, i) = c
    THEN CHOOSE i \in 1..Len(alphabet) : CharAt(alphabet, i) = c
    ELSE 0

\* a < b on Python strings
RECURSIVE StrLess(_, _)
StrLess(a, b) ==
    IF Len(b) = 0 THEN FALSE
    ELSE IF Len(a) = 0 THEN TRUE
    ELSE IF CharAt(a, 1) = CharAt(b, 1) THEN StrLess(Rest(a), Rest(b))
    ELSE IndexIn(Chars, CharAt(a, 1)) < IndexIn(Chars, CharAt(b, 1))

\* sorted(list(S)) for a set of strings
RECURSIVE sorted(_)
sorted(S) ==
    IF S = {} THEN <<>>
    ELSE LET m == CHOOSE x \in S : \A y \in S \ {x} : StrLess(x, y)
         IN  <<m>> \o sorted(S \ {m})

RECURSIVE MapChars(_, _, _)
MapChars(s, from, to) ==
    IF Len(s) = 0 THEN s
    ELSE LET i == IndexIn(from, CharAt(s, 1))
         IN  (IF i = 0 THEN CharAt(s, 1) ELSE CharAt(to, i)) \o MapChars(Rest(s), from, to)

\* str.capitalize
capitalize(s) ==
    IF Len(s) = 0 THEN s
    ELSE MapChars(CharAt(s, 1), Lower, Upper) \o MapChars(Rest(s), Upper, Lower)

\* s.split("/")
RECURSIVE SplitSlash(_)
SplitSlash(s) ==
    IF ~contains(s, "/") THEN <<s>>
    ELSE LET i == CHOOSE j \in 1..Len(s) :
                     /\ CharAt(s, j) = "/"
                     /\ \A k \in 1..(j - 1) : CharAt(s, k) # "/"
         IN  <<SubSeq(s, 1, i - 1)>> \o SplitSlash(SubSeq(s, i + 1, Len(s)))

RECURSIVE JoinSlash(_)
JoinSlash(parts) ==
    IF parts = <<>> THEN ""
    ELSE IF Len(parts) = 1 THEN parts[1]
    ELSE parts[1] \o "/" \o JoinSlash(Tail(parts))

\* the parts pathlib keeps of a path string: empty and "." segments are
\* dropped, ".." segments are kept
PathParts(s) == SelectSeq(SplitSlash(s), LAMBDA x : x # "" /\ x # ".")

\* str(Path(current_dir) / value)
path_join(current_dir, value) ==
    IF startswith(value, "/") THEN "/" \o JoinSlash(PathParts(value))
    ELSE LET parts == PathParts(current_dir) \o PathParts(value)
             root == IF startswith(current_dir, "/") THEN "/" ELSE ""
         IN  IF parts = <<>> /\ root = "" THEN "." ELSE root \o JoinSlash(parts)

\* s.replace("\\", "/")
replace_backslash(s) == MapChars(s, "\\", "/")

(***************************************************************************)
(* update_refs_for_scenario                                                *)
(***************************************************************************)
\* the path looked up in schemas_with_scenarios for a "$ref" ending ".json"
ref_path(value, current_dir) ==
    replace_backslash(IF current_dir # "" THEN path_join(current_dir, value) ELSE value)

\* the new value of one "$ref" string
update_ref(value, scenario, with_scenarios, current_dir) ==
    IF startswith(value, "#/") \/ contains(value, "#/$defs/") THEN value
    ELSE IF endswith(value, ".json") THEN
        IF ref_path(value, current_dir) \in with_scenarios
        THEN SubSeq(value, 1, Len(value) - 5) \o "_" \o scenario \o "_request.json"
        ELSE value
    ELSE value

RECURSIVE update_refs_for_scenario(_, _, _, _)
update_refs_for_scenario(obj, scenario, with_scenarios, current_dir) ==
    IF IsDict(obj) THEN
        Dict([key \in Keys(obj) |->
            IF key = "$ref" /\ IsStr(Get(obj, key))
            THEN Str(update_ref(Get(obj, key).v, scenario, with_scenarios, current_dir))
            ELSE update_refs_for_scenario(Get(obj, key), scenario, with_scenarios, current_dir)])
    ELSE IF IsList(obj) THEN
        List([i \in DOMAIN obj.v |->
            update_refs_for_scenario(obj.v[i], scenario, with_scenarios, current_dir)])
    ELSE obj

(***************************************************************************)
(* process_ucp_request_scenarios                                           *)
(***************************************************************************)
HasAnnotation(prop_schema) == IsDict(prop_schema) /\ Has(prop_schema, "ucp_request")

\* scenario_types taking the keys of one mapping-valued annotation only
scenario_types_of_one(schema) ==
    LET mapped == {q \in Keys(Get(schema, "properties")) :
                     /\ HasAnnotation(Get(schema, "properties").v[q])
                     /\ IsDict(Get(Get(schema, "properties").v[q], "ucp_request"))}
    IN  IF mapped = {} THEN {}
        ELSE Keys(Get(Get(schema, "properties").v[CHOOSE q \in mapped : TRUE], "ucp_request"))

\* the first loop: the union of the keys of the mapping-valued annotations
scenario_types(schema) ==
    UNION {Keys(Get(Get(schema, "properties").v[p], "ucp_request")) :
           p \in {q \in Keys(Get(schema, "properties")) :
                    /\ HasAnnotation(Get(schema, "properties").v[q])
                    /\ IsDict(Get(Get(schema, "properties").v[q], "ucp_request"))}}

\* directive_of with a missing scenario key defaulting to "required"
directive_of_default_required(ucp_req, scenario) ==
    IF IsStr(ucp_req) THEN ucp_req
    ELSE IF IsDict(ucp_req)
         THEN (IF Has(ucp_req, scenario) THEN Get(ucp_req, scenario) ELSE Str("required"))
    ELSE Str("optional")

\* the directive of an annotation for a scenario, as a JSON value
directive_of(ucp_req, scenario) ==
    IF IsStr(ucp_req) THEN ucp_req
    ELSE IF IsDict(ucp_req)
         THEN (IF Has(ucp_req, scenario) THEN Get(ucp_req, scenario) ELSE Str("optional"))
    ELSE Str("optional")

\* the loop over the properties of one scenario schema; st is
\* [properties, to_remove, required_fields]
RECURSIVE apply_directives(_, _, _)
apply_directives(names, st, scenario) ==
    IF names = <<>> THEN st
    ELSE LET prop_name == Head(names)
             prop_schema == Get(st.properties, prop_name)
         IN  IF ~HasAnnotation(prop_schema) THEN apply_directives(Tail(names), st, scenario)
             ELSE LET directive == directive_of(Get(prop_schema, "ucp_request"), scenario)
                      props == Put(st.properties, prop_name, Del(prop_schema, "ucp_request"))
                      next == IF directive = Str("omit")
                              THEN [properties |-> props,
                                    to_remove |-> st.to_remove \cup {prop_name},
                                    required_fields |-> st.required_fields \ {prop_name}]
                              ELSE IF directive = Str("required")
                              THEN [properties |-> props,
                                    to_remove |-> st.to_remove,
                                    required_fields |-> st.required_fields \cup {prop_name}]
                              ELSE IF directive = Str("optional")
                              THEN [properties |-> props,
                                    to_remove |-> st.to_remove,
                                    required_fields |-> st.required_fields \ {prop_name}]
                              ELSE [properties |-> props,
                                    to_remove |-> st.to_remove,
                                    required_fields |-> st.required_fields]
                  IN  apply_directives(Tail(names), next, scenario)

\* the body of `for scenario in scenario_types`
scenario_schema_for(schema, scenario, with_scenarios, schema_dir) ==
    LET titled == IF Has(schema, "title")
                  THEN Put(schema, "title",
                           Str(Get(schema, "title").v \o " (" \o capitalize(scenario) \o " Request)"))
                  ELSE schema
        base_required == IF Has(titled, "required")
                         THEN {x.v : x \in Range(Get(titled, "required").v)} ELSE {}
        st == apply_directives(KeySeq(Keys(Get(titled, "properties"))),
                               [properties |-> Get(titled, "properties"),
                                to_remove |-> {},
                                required_fields |-> base_required],
                               scenario)
        props == Dict([p \in Keys(st.properties) \ st.to_remove |-> Get(st.properties, p)])
        with_props == Put(titled, "properties", props)
        with_required ==
            IF st.required_fields # {}
            THEN LET names == sorted(st.required_fields)
                 IN  Put(with_props, "required", List([i \in DOMAIN names |-> Str(names[i])]))
            ELSE Del(with_props, "required")
    IN  update_refs_for_scenario(with_required, scenario, with_scenarios, schema_dir)

\* the result maps scenario names to schemas
process_ucp_request_scenarios(schema, base_name, with_scenarios, schema_dir) ==
    IF ~Has(schema, "properties") THEN ("base" :> schema)
    ELSE IF scenario_types(schema) = {} THEN ("base" :> schema)
    ELSE [scenario \in scenario_types(schema) |->
             scenario_schema_for(schema, scenario, with_scenarios, schema_dir)]

(***************************************************************************)
(* clean_schema_for_codegen                                                *)
(***************************************************************************)
\* clean_schema_for_codegen without the deep copy: the keys are deleted from
\* the caller's document
clean_schema_in_place(schema) ==
    [input |-> Del(Del(schema, "$id"), "$schema"), output |-> Del(Del(schema, "$id"), "$schema")]

\* [input, output]: the caller's document after the call, and the value
\* returned (a deep copy without the top-level "$id" and "$schema")
clean_schema_for_codegen(schema) ==
    [input |-> schema, output |-> Del(Del(schema, "$id"), "$schema")]

(***************************************************************************)
(* Inputs of the per-function specification                                *)
(***************************************************************************)
Ref(r) == Dict("$ref" :> Str(r))
Props(names) == Dict("properties" :> Dict([n \in names |-> Dict("type" :> Str("string"))]))
AllOf(items) == Dict("allOf" :> List(items))
StrList(l) == List([i \in DOMAIN l |-> Str(l[i])])
Perms(S) == {q \in [1..Cardinality(S) -> S] : \A x \in S : \E i \in DOMAIN q : q[i] = x}

\* definitions for remove_extension_defs
PruneDefs ==
    { Props({"x"}),
      Str("scalar"),
      AllOf(<<Ref("#/$defs/B")>>),
      AllOf(<<Ref("ext.json")>>),
      AllOf(<<Props({"y"}), Ref("../ucp.json#/$defs/X")>>),
      AllOf(<<Dict(("$ref" :> Str("ext.json")) @@ ("description" :> Str("d")))>>),
      AllOf(<<Dict(("$ref" :> Str("#/$defs/B")) @@ ("description" :> Str("d"))), Props({"z"})>>),
      AllOf(<<Str("ext.json"), Props({"y"})>>),
      AllOf(<<>>) }

PruneDocs ==
    {Dict("title" :> Str("T"))}
    \cup {Dict(("title" :> Str("T")) @@ ("$defs" :> Dict("A" :> a))) : a \in PruneDefs}
    \cup {Dict("$defs" :> Dict(("A" :> a) @@ ("B" :> b))) : a \in PruneDefs, b \in PruneDefs}

PruneCalls == {[fn |-> "remove_extension_defs", schema |-> d] : d \in PruneDocs}

\* definitions for inline_internal_refs: chains, a self reference, a
\* two-definition cycle, a three-definition cycle, a missing target
InlineDefs ==
    { Dict(("A" :> a) @@ ("B" :> b) @@ ("C" :> c)) :
        a \in { Ref("#/$defs/B"),
                Dict("properties" :> Dict("x" :> Ref("#/$defs/A"))),
                AllOf(<<Ref("#/$defs/B"), Ref("#/$defs/C")>>),
                Props({"a"}) },
        b \in { Ref("#/$defs/A"),
                Ref("#/$defs/C"),
                Dict("items" :> Ref("#/$defs/B")),
                Props({"b"}) },
        c \in { Props({"c"}),
                Ref("#/$defs/A"),
                Ref("#/$defs/Missing") } }

InlineObjs ==
    { Ref("#/$defs/A"),
      Dict("properties" :> Dict(("p" :> Ref("#/$defs/A")) @@ ("q" :> Ref("#/$defs/B")))),
      List(<<Ref("#/$defs/B"), Ref("#/$defs/C"), Ref("#/$defs/B")>>),
      Dict(("$ref" :> Str("#/$defs/C")) @@ ("description" :> Str("d"))),
      Ref("other.json#/$defs/A"),
      Str("scalar") }

InlineProcessed == {{}, {"A"}, {"B", "Z"}}

InlineCalls ==
    {[fn |-> "inline_internal_refs", obj |-> o, defs |-> d, processed |-> p] :
        o \in InlineObjs, d \in InlineDefs, p \in InlineProcessed}

\* definitions for flatten_allof_in_defs: a chain A -> B -> C of allOf
\* definitions, plain definitions, an external extension, a cycle
FlattenDocs ==
    { Dict(("title" :> Str("T")) @@ ("$defs" :> Dict(("A" :> a) @@ ("B" :> b) @@ ("C" :> c)))) :
        a \in { AllOf(<<Ref("#/$defs/B")>>),
                AllOf(<<Ref("#/$defs/B"), Ref("#/$defs/C")>>),
                Dict(("allOf" :> List(<<Ref("#/$defs/C"),
                                        Dict(("properties" :> Dict("a" :> Dict("type" :> Str("integer"))))
                                             @@ ("required" :> StrList(<<"a", "x">>)))>>))
                     @@ ("title" :> Str("A")) @@ ("description" :> Str("the A"))),
                AllOf(<<Ref("ext.json"), Ref("#/$defs/B")>>) },
        b \in { Dict(("properties" :> Dict("y" :> Dict("type" :> Str("string"))))
                     @@ ("required" :> StrList(<<"y">>)) @@ ("title" :> Str("B"))),
                AllOf(<<Ref("#/$defs/C")>>),
                AllOf(<<Ref("#/$defs/C"), Props({"y"})>>),
                AllOf(<<Ref("#/$defs/A")>>) },
        c \in { Dict(("properties" :> Dict("x" :> Dict("type" :> Str("string"))))
                     @@ ("required" :> StrList(<<"x">>)) @@ ("type" :> Str("object"))),
                Props({"x", "z"}) } }
    \cup {Dict("title" :> Str("T"))}

HashOrders == {<<"a", "x", "y">>, <<"y", "x", "a">>}

FlattenCalls ==
    {[fn |-> "flatten_allof_in_defs", schema |-> d, order |-> o, hash_order |-> h] :
        d \in {x \in FlattenDocs : Has(x, "$defs")}, o \in Perms({"A", "B", "C"}), h \in HashOrders}
    \cup {[fn |-> "flatten_allof_in_defs", schema |-> Dict("title" :> Str("T")),
           order |-> <<>>, hash_order |-> <<>>]}

\* "$ref" values for update_refs_for_scenario
RefValues ==
    { "#/$defs/A", "../ucp.json#/$defs/X", "item.json", "types/item.json", "./item.json",
      "../item.json", "../types/item.json", "types\\item.json", "item.yaml", "/abs/item.json" }

RefObjs ==
    {Ref(r) : r \in RefValues}
    \cup {Dict(("properties" :> Dict("a" :> Dict(("$ref" :> Str(r)) @@ ("title" :> Str("item.json")))))
               @@ ("items" :> List(<<Ref(r), Str("item.json")>>))) : r \in RefValues}
    \cup {Dict("$ref" :> Num(1))}

ScenarioNames == {"create", "update"}
CurrentDirs == {"", "shopping", "shopping/types"}
MembershipSets ==
    { {},
      {"item.json", "types/item.json"},
      {"shopping/item.json", "shopping/types/item.json"},
      {"shopping/types/types/item.json", "abs/item.json", "/abs/item.json"} }

\* the empty current_dir (the default, which no driver run passes) is
\* paired with the references that hold no "." segment
RefCalls ==
    {[fn |-> "update_refs_for_scenario", obj |-> o, scenario |-> sc,
      schemas_with_scenarios |-> m, current_dir |-> d] :
        o \in RefObjs, sc \in ScenarioNames, m \in MembershipSets, d \in CurrentDirs \ {""}}
    \cup {[fn |-> "update_refs_for_scenario", obj |-> Ref(r), scenario |-> sc,
           schemas_with_scenarios |-> m, current_dir |-> ""] :
        r \in RefValues \ {"./item.json"}, sc \in ScenarioNames, m \in MembershipSets}

\* ucp_request annotations: scalar directives (known and unknown),
\* mappings (several scenarios, one scenario, empty, the key "base", an
\* unknown directive), a malformed value
Annotations ==
    { Str("required"), Str("optional"), Str("omit"), Str("readonly"),
      Dict(("create" :> Str("omit")) @@ ("update" :> Str("required"))),
      Dict("create" :> Str("required")),
      Dict("complete" :> Str("readonly")),
      Dict("base" :> Str("omit")),
      EmptyDict,
      Num(1) }

IdSchemas ==
    {Dict("type" :> Str("string"))}
    \cup {Dict(("type" :> Str("string")) @@ ("ucp_request" :> a)) : a \in Annotations}

NameSchemas ==
    { EmptyDict,
      Str("scalar"),
      Dict("ucp_request" :> Dict("update" :> Str("optional"))),
      Dict(("ucp_request" :> Str("required")) @@ ("$ref" :> Str("types/item.json"))) }

RequiredLists == {<<>>, <<"id">>, <<"name", "id", "name">>, <<"ghost", "name">>}

ScenarioDocs ==
    { Dict(("title" :> Str("Checkout"))
           @@ ("properties" :> Dict(("id" :> i) @@ ("name" :> n)))
           @@ ("required" :> StrList(r))) :
        i \in IdSchemas, n \in NameSchemas, r \in RequiredLists }
    \cup { Dict("properties" :> Dict("id" :> i)) : i \in IdSchemas }
    \cup { Dict("title" :> Str("No properties")) }

ScenarioCalls ==
    {[fn |-> "process_ucp_request_scenarios", schema |-> d, base_name |-> "checkout",
      schemas_with_scenarios |-> {"shopping/types/item.json"}, schema_dir |-> "shopping"] :
        d \in ScenarioDocs}

CleanDocs ==
    { Dict([k \in ks |->
            CASE k = "$id" -> Str("https://ucp.dev/schemas/x.json")
              [] k = "$schema" -> Str("https://json-schema.org/draft/2020-12/schema")
              [] k = "title" -> Str("T")
              [] k = "properties" -> Dict("p" :> Dict(("$id" :> Str("nested")) @@ ("$schema" :> Str("nested"))))
              [] OTHER -> Dict("D" :> Dict("$id" :> Str("nested")))]) :
        ks \in SUBSET {"$id", "$schema", "title", "properties", "$defs"} }

CleanCalls == {[fn |-> "clean_schema_for_codegen", schema |-> d] : d \in CleanDocs}

(***************************************************************************)
(* The per-function specification: one call of one function                *)
(***************************************************************************)
NotReturned == [done |-> FALSE]
Idle == [fn |-> "none"]

DriverIdle ==
    /\ files = <<>>
    /\ output_dir = <<>>
    /\ output_files = <<>>
    /\ schemas_with_scenarios = {}
    /\ pending = {}
    /\ phase = "idle"
    /\ trace = <<>>

Init ==
    /\ call \in PruneCalls \cup InlineCalls \cup FlattenCalls \cup RefCalls
                \cup ScenarioCalls \cup CleanCalls
    /\ ret = NotReturned
    /\ DriverIdle

\* remove_extension_defs mutates its argument and returns it
CallRemoveExtensionDefs ==
    /\ call.fn = "remove_extension_defs" /\ ~ret.done
    /\ LET r == remove_extension_defs(call.schema)
       IN  ret' = [done |-> TRUE, val |-> r, arg |-> r]
    /\ UNCHANGED <<call, driverVars>>

CallInlineInternalRefs ==
    /\ call.fn = "inline_internal_refs" /\ ~ret.done
    /\ LET r == inline_internal_refs(call.obj, call.defs, call.processed)
       IN  ret' = [done |-> TRUE, val |-> r.val, processed |-> r.processed, ok |-> r.ok]
    /\ UNCHANGED <<call, driverVars>>

\* flatten_allof_in_defs mutates its argument and returns it
CallFlattenAllofInDefs ==
    /\ call.fn = "flatten_allof_in_defs" /\ ~ret.done
    /\ LET r == flatten_allof_in_defs(call.schema, call.order, call.hash_order)
       IN  ret' = [done |-> TRUE, val |-> r, arg |-> r]
    /\ UNCHANGED <<call, driverVars>>

CallUpdateRefsForScenario ==
    /\ call.fn = "update_refs_for_scenario" /\ ~ret.done
    /\ ret' = [done |-> TRUE,
               val |-> update_refs_for_scenario(call.obj, call.scenario,
                                                call.schemas_with_scenarios, call.current_dir)]
    /\ UNCHANGED <<call, driverVars>>

CallProcessUcpRequestScenarios ==
    /\ call.fn = "process_ucp_request_scenarios" /\ ~ret.done
    /\ ret' = [done |-> TRUE,
               val |-> process_ucp_request_scenarios(call.schema, call.base_name,
                                                     call.schemas_with_scenarios, call.schema_dir)]
    /\ UNCHANGED <<call, driverVars>>

CallCleanSchemaForCodegen ==
    /\ call.fn = "clean_schema_for_codegen" /\ ~ret.done
    /\ LET r == clean_schema_for_codegen(call.schema)
       IN  ret' = [done |-> TRUE, val |-> r.output, arg |-> r.input]
    /\ UNCHANGED <<call, driverVars>>

Next ==
    \/ CallRemoveExtensionDefs
    \/ CallInlineInternalRefs
    \/ CallFlattenAllofInDefs
    \/ CallUpdateRefsForScenario
    \/ CallProcessUcpRequestScenarios
    \/ CallCleanSchemaForCodegen

Spec == Init /\ [][Next]_vars

(***************************************************************************)
(* Properties of the per-function specification                            *)
(***************************************************************************)
Returned(fn) == call.fn = fn /\ ret.done

DefKeys(doc) == IF Has(doc, "$defs") THEN Keys(Get(doc, "$defs")) ELSE {}
AllOfItems(def) == IF IsDict(def) /\ Has(def, "allOf") THEN Range(Get(def, "allOf").v) ELSE {}
IsLocalTarget(r) == Len(r) >= 2 /\ SubSeq(r, 1, 2) = "#/"

\* some allOf element is a mapping with a "$ref" key (alone or beside other
\* keys) whose target is not local
ExtendsExternal(def) ==
    \E item \in AllOfItems(def) :
        IsDict(item) /\ "$ref" \in Keys(item) /\ ~IsLocalTarget(item.v["$ref"].v)

\* some allOf element is a pure-reference node whose target is not local
ExtendsExternalPurely(def) ==
    \E item \in AllOfItems(def) :
        IsDict(item) /\ Keys(item) = {"$ref"} /\ ~IsLocalTarget(item.v["$ref"].v)

\* C1 as stated: after remove_extension_defs the $defs keys are a subset of
\* those before, and a definition is removed if and only if its allOf holds
\* a pure-reference node with a non-local target (so a non-local $ref beside
\* other keys keeps the definition).
C1_RemovedIffPureExternal ==
    Returned("remove_extension_defs") =>
        /\ DefKeys(ret.val) \subseteq DefKeys(call.schema)
        /\ \A n \in DefKeys(call.schema) :
             (n \notin DefKeys(ret.val)) <=> ExtendsExternalPurely(Get(call.schema, "$defs").v[n])

\* C1 amended: after remove_extension_defs the $defs keys are a subset of
\* those before; a definition is removed if and only if its allOf holds a
\* mapping element with a "$ref" key, alone or beside other keys, whose
\* target does not start with "#/"; the kept definitions are unchanged, the
\* argument is the returned document, and "$defs" is absent when none is kept.
C1_RemovedIffAnyExternalRef ==
    Returned("remove_extension_defs") =>
        /\ DefKeys(ret.val) \subseteq DefKeys(call.schema)
        /\ \A n \in DefKeys(call.schema) :
             (n \notin DefKeys(ret.val)) <=> ExtendsExternal(Get(call.schema, "$defs").v[n])
        /\ \A n \in DefKeys(ret.val) :
             Get(ret.val, "$defs").v[n] = Get(call.schema, "$defs").v[n]
        /\ Has(ret.val, "$defs") => DefKeys(ret.val) # {}
        /\ ret.arg = ret.val

\* a definition was removed for a non-local $ref that sits beside other
\* keys, and another definition was kept
C1_Witness ==
    /\ Returned("remove_extension_defs")
    /\ \E n \in DefKeys(call.schema) \ DefKeys(ret.val) :
         ~ExtendsExternalPurely(Get(call.schema, "$defs").v[n])
    /\ DefKeys(ret.val) # {}

\* --- process_ucp_request_scenarios ---
PropsOf(doc) == IF Has(doc, "properties") THEN Keys(Get(doc, "properties")) ELSE {}
AnnotationOf(doc, p) == doc.v["properties"].v[p].v["ucp_request"]
Annotated(doc, p) ==
    /\ p \in PropsOf(doc)
    /\ doc.v["properties"].v[p].t = "dict"
    /\ "ucp_request" \in Keys(doc.v["properties"].v[p])
MappingAnnotated(doc) == {p \in PropsOf(doc) : Annotated(doc, p) /\ AnnotationOf(doc, p).t = "dict"}
ObservedKeys(doc) == UNION {Keys(AnnotationOf(doc, p)) : p \in MappingAnnotated(doc)}
RequiredOf(doc) == IF Has(doc, "required") THEN {x.v : x \in Range(Get(doc, "required").v)} ELSE {}

\* the resolved directive of an annotated property for scenario s
Resolved(doc, p, s) ==
    LET a == AnnotationOf(doc, p)
    IN  CASE a.t = "str" -> a
          [] a.t = "dict" /\ s \in Keys(a) -> a.v[s]
          [] OTHER -> Str("optional")

\* the required list is absent when `expected` is empty and otherwise lists
\* exactly `expected`, in ascending order without duplicates
RequiredIs(doc, expected) ==
    /\ Has(doc, "required") <=> expected # {}
    /\ RequiredOf(doc) = expected
    /\ Has(doc, "required") =>
         \A i, j \in DOMAIN Get(doc, "required").v :
             i < j => StrLess(Get(doc, "required").v[i].v, Get(doc, "required").v[j].v)

ScenariosGenerated == Returned("process_ucp_request_scenarios") /\ ObservedKeys(call.schema) # {}

\* C2 as stated: in every scenario document, p is required if and only if
\* its resolved directive is "required", or p carried no annotation and was
\* required in the base document; for every annotation value.
C2_RequiredIffDirectiveOrUnannotated ==
    ScenariosGenerated =>
        \A s \in DOMAIN ret.val :
            RequiredIs(ret.val[s],
                {p \in PropsOf(call.schema) \cup RequiredOf(call.schema) :
                    \/ Annotated(call.schema, p) /\ Resolved(call.schema, p, s) = Str("required")
                    \/ ~Annotated(call.schema, p) /\ p \in RequiredOf(call.schema)})

\* C2 amended: in every scenario document, p is required if and only if its
\* resolved directive is "required", or p was required in the base document
\* and either carried no annotation or resolved to a directive that is
\* neither "optional" nor "omit" (an unrecognised directive leaves the base
\* state); the required key is absent exactly when that set is empty and
\* otherwise is sorted without duplicates.
C2_RequiredKeepsBaseOnUnknownDirective ==
    ScenariosGenerated =>
        \A s \in DOMAIN ret.val :
            RequiredIs(ret.val[s],
                {p \in PropsOf(call.schema) \cup RequiredOf(call.schema) :
                    \/ Annotated(call.schema, p) /\ Resolved(call.schema, p, s) = Str("required")
                    \/ /\ p \in RequiredOf(call.schema)
                       /\ Annotated(call.schema, p) =>
                            Resolved(call.schema, p, s) \notin {Str("optional"), Str("omit")}})

\* a scenario document keeps a base-required property whose scalar directive
\* is unrecognised, while another property is resolved by a mapping
C2_Witness ==
    /\ ScenariosGenerated
    /\ \E s \in DOMAIN ret.val : \E p \in RequiredOf(ret.val[s]) :
         /\ Annotated(call.schema, p)
         /\ Resolved(call.schema, p, s) \notin {Str("required"), Str("optional"), Str("omit")}
    /\ Len(Get(call.schema, "required").v) > Cardinality(RequiredOf(call.schema))

\* C3 as stated: with at least one mapping-valued annotation (an empty
\* mapping included) the result's keys are exactly the observed keys and no
\* "base" entry stands for the unmodified document.
C3_KeysAreObservedKeys ==
    (Returned("process_ucp_request_scenarios") /\ MappingAnnotated(call.schema) # {}) =>
        /\ DOMAIN ret.val = ObservedKeys(call.schema)
        /\ "base" \in DOMAIN ret.val => ret.val["base"] # call.schema

\* C3 amended: with at least one non-empty mapping-valued annotation the
\* result's keys are exactly the observed keys (the key "base" included) and
\* no entry is the unmodified document; when every mapping-valued annotation
\* is empty the result is the single entry "base" holding the unmodified
\* document.
C3_KeysAreObservedKeysUnlessNone ==
    (Returned("process_ucp_request_scenarios") /\ MappingAnnotated(call.schema) # {}) =>
        IF ObservedKeys(call.schema) # {}
        THEN /\ DOMAIN ret.val = ObservedKeys(call.schema)
             /\ \A s \in DOMAIN ret.val : ret.val[s] # call.schema
        ELSE DOMAIN ret.val = {"base"} /\ ret.val["base"] = call.schema

\* two mappings with different keys were merged into the result's key set
C3_Witness ==
    /\ Returned("process_ucp_request_scenarios")
    /\ Cardinality(MappingAnnotated(call.schema)) = 2
    /\ \A p \in MappingAnnotated(call.schema) : Keys(AnnotationOf(call.schema, p)) # DOMAIN ret.val
    /\ DOMAIN ret.val = ObservedKeys(call.schema)

\* --- inline_internal_refs ---
RefName(r) == LastSegment(r)
IsLocalDefRef(x) ==
    x.t = "dict" /\ Keys(x) = {"$ref"} /\ x.v["$ref"].t = "str"
    /\ Len(x.v["$ref"].v) >= 8 /\ SubSeq(x.v["$ref"].v, 1, 8) = "#/$defs/"

\* the names the pure local references anywhere inside x point to
RECURSIVE LocalRefNames(_)
LocalRefNames(x) ==
    IF IsLocalDefRef(x) THEN {RefName(x.v["$ref"].v)}
    ELSE IF x.t = "dict" THEN UNION {LocalRefNames(x.v[k]) : k \in DOMAIN x.v}
    ELSE IF x.t = "list" THEN UNION {LocalRefNames(x.v[i]) : i \in DOMAIN x.v}
    ELSE {}

\* the definitions reachable from the definitions in `from` in at least one step
RECURSIVE ReachableDefs(_, _, _)
ReachableDefs(defs, from, seen) ==
    LET step == UNION {LocalRefNames(defs.v[n]) : n \in from \cap Keys(defs)}
    IN  IF step \subseteq seen THEN seen
        ELSE ReachableDefs(defs, step \ seen, seen \cup step)

OnCycle(defs, n) == n \in ReachableDefs(defs, {n}, {})

\* C7: inline_internal_refs returns within the depth bound for every
\* definitions mapping, cyclic ones included; the pure local references left
\* in the result point to a name absent from the mapping, to a name in the
\* expansion set the call was entered with, or to a definition on a reference
\* cycle (the re-entered one); the expansion set on return is the one on entry.
C7_InlineTerminatesGuarded ==
    Returned("inline_internal_refs") =>
        /\ ret.ok
        /\ ret.processed = call.processed
        /\ \A n \in LocalRefNames(ret.val) :
             n \notin Keys(call.defs) \/ n \in call.processed \/ OnCycle(call.defs, n)

\* a reference into a two-definition cycle came back as the innermost
\* reference to the definition being expanded
C7_Witness ==
    /\ Returned("inline_internal_refs")
    /\ call.processed = {}
    /\ call.obj = Ref("#/$defs/A")
    /\ call.defs.v["A"] = Ref("#/$defs/B") /\ call.defs.v["B"] = Ref("#/$defs/A")
    /\ ret.val = Ref("#/$defs/A")

\* --- clean_schema_for_codegen ---
\* C8: cleaning twice equals cleaning once; the result is the input without
\* its top-level "$id" and "$schema" (nested ones kept); the input document
\* is not modified.
C8_CleanIdempotentTopLevelOnly ==
    Returned("clean_schema_for_codegen") =>
        /\ clean_schema_for_codegen(ret.val).output = ret.val
        /\ Keys(ret.val) = Keys(call.schema) \ {"$id", "$schema"}
        /\ \A k \in Keys(ret.val) : ret.val.v[k] = call.schema.v[k]
        /\ ret.arg = call.schema

\* a document with top-level and nested "$id"/"$schema" was cleaned
C8_Witness ==
    /\ Returned("clean_schema_for_codegen")
    /\ {"$id", "$schema", "properties"} \subseteq Keys(call.schema)
    /\ "$id" \in Keys(ret.val.v["properties"].v["p"])
    /\ "$id" \notin Keys(ret.val)

\* --- update_refs_for_scenario ---
\* the parts of a path with "." dropped and ".." collapsed against the part
\* before it
RECURSIVE Collapse(_, _)
Collapse(parts, done) ==
    IF parts = <<>> THEN done
    ELSE IF Head(parts) = ".." /\ done # <<>> /\ done[Len(done)] # ".."
         THEN Collapse(Tail(parts), SubSeq(done, 1, Len(done) - 1))
         ELSE Collapse(Tail(parts), Append(done, Head(parts)))

\* value resolved against directory d and normalized, ".." collapsed
NormalizedPath(d, value) ==
    LET v == replace_backslash(value)
    IN  IF startswith(v, "/") THEN "/" \o JoinSlash(Collapse(PathParts(v), <<>>))
        ELSE JoinSlash(Collapse(PathParts(d) \o PathParts(v), <<>>))

\* what the claim allows as the rewritten value of one "$ref" string
RefRewrittenAsClaimed(old, new, s, M, d) ==
    IF startswith(old, "#/") \/ contains(old, "#/$defs/") THEN new = old
    ELSE IF endswith(old, ".json")
         THEN new = IF NormalizedPath(d, old) \in M
                    THEN SubSeq(old, 1, Len(old) - 5) \o "_" \o s \o "_request.json"
                    ELSE old
    ELSE TRUE

RECURSIVE RefsRewrittenAsClaimed(_, _, _, _, _)
RefsRewrittenAsClaimed(old, new, s, M, d) ==
    IF old.t = "dict" THEN
        /\ new.t = "dict" /\ Keys(new) = Keys(old)
        /\ \A k \in Keys(old) :
             IF k = "$ref" /\ old.v[k].t = "str"
             THEN new.v[k].t = "str" /\ RefRewrittenAsClaimed(old.v[k].v, new.v[k].v, s, M, d)
             ELSE RefsRewrittenAsClaimed(old.v[k], new.v[k], s, M, d)
    ELSE IF old.t = "list" THEN
        /\ new.t = "list" /\ Len(new.v) = Len(old.v)
        /\ \A i \in DOMAIN old.v : RefsRewrittenAsClaimed(old.v[i], new.v[i], s, M, d)
    ELSE new = old

\* C4: a $ref that starts with "#/" or contains "#/$defs/" is unchanged;
\* any other $ref ending in ".json" is rewritten to
\* <name>_<scenario>_request.json if and only if its path, resolved against
\* the current directory and normalized with ".." collapsed, is in the
\* membership set, and is otherwise unchanged.
C4_RewrittenIffNormalizedPathIsMember ==
    Returned("update_refs_for_scenario") =>
        RefsRewrittenAsClaimed(call.obj, ret.val, call.scenario,
                               call.schemas_with_scenarios, call.current_dir)

\* --- flatten_allof_in_defs ---
\* the property names reachable from node x of the original document
\* through pure local references and nested allOf
RECURSIVE ChainProps(_, _, _)
ChainProps(defs, x, seen) ==
    IF IsLocalDefRef(x) THEN
        LET m == RefName(x.v["$ref"].v)
        IN  IF m \in Keys(defs) /\ m \notin seen
            THEN ChainProps(defs, defs.v[m], seen \cup {m}) ELSE {}
    ELSE IF x.t = "dict" THEN
        (IF "properties" \in Keys(x) /\ x.v["properties"].t = "dict"
         THEN Keys(x.v["properties"]) ELSE {})
        \cup UNION {ChainProps(defs, item, seen) : item \in AllOfItems(x)}
    ELSE {}

\* the definition is one that flatten_allof_in_defs flattens
IsFlattened(def) ==
    /\ def.t = "dict" /\ "allOf" \in Keys(def)
    /\ \A item \in AllOfItems(def) :
         (item.t = "dict" /\ "$ref" \in Keys(item)) => IsLocalTarget(item.v["$ref"].v)

\* C5: for every definition that flatten_allof_in_defs flattens, every
\* property name reachable transitively from its original allOf chain
\* (through referenced definitions that themselves have an allOf, in any
\* iteration order of $defs) is a key of the flattened properties mapping.
C5_FlattenKeepsReachableProperties ==
    Returned("flatten_allof_in_defs") =>
        \A n \in DefKeys(call.schema) :
            LET defs == Get(call.schema, "$defs")
                flat == Get(ret.val, "$defs").v[n]
            IN  IsFlattened(defs.v[n]) =>
                    UNION {ChainProps(defs, item, {n}) : item \in AllOfItems(defs.v[n])}
                        \subseteq (IF Has(flat, "properties") THEN Keys(Get(flat, "properties")) ELSE {})

(***************************************************************************)
(* preprocess_schema_file and preprocess_schemas                           *)
(***************************************************************************)
\* pathlib on the parts of a path
Parent(parts) == IF parts = <<>> THEN <<>> ELSE SubSeq(parts, 1, Len(parts) - 1)
RelativeTo(parts, base) == SubSeq(parts, Len(base) + 1, Len(parts))
PathStr(parts) == IF parts = <<>> THEN "." ELSE JoinSlash(parts)
FileName(path) == LastSegment(path)
Stem(name) == SubSeq(name, 1, Len(name) - 5)

\* a path relative to the output root, from the parts of a directory and a name
InDir(dir_parts, name) == JoinSlash(Append(dir_parts, name))

\* the working directory Path.resolve() makes a relative path absolute with
Cwd == "/work"
ref_files == <<"service.json", "capability.json", "payment_handler.json">>

\* one JSON string after the replacements of '"<ref_file>' by
\* '"file://<input_dir_abs>/<ref_file>': a string is rewritten when it
\* starts with one of ref_files
fix_string(str, input_dir_abs) ==
    IF \E i \in DOMAIN ref_files : startswith(str, ref_files[i])
    THEN "file://" \o input_dir_abs \o "/" \o str
    ELSE str

\* json.loads of the replaced json.dumps: every key and every string value
RECURSIVE force_absolute_refs(_, _)
force_absolute_refs(obj, input_dir_abs) ==
    IF IsDict(obj) THEN
        LET renamed == {<<k, fix_string(k, input_dir_abs)>> : k \in Keys(obj)}
        IN  Dict([k2 \in {kk[2] : kk \in renamed} |->
                    force_absolute_refs(Get(obj, (CHOOSE kk \in renamed : kk[2] = k2)[1]),
                                        input_dir_abs)])
    ELSE IF IsList(obj) THEN
        List([i \in DOMAIN obj.v |-> force_absolute_refs(obj.v[i], input_dir_abs)])
    ELSE IF IsStr(obj) THEN Str(fix_string(obj.v, input_dir_abs))
    ELSE obj

\* str(output_path.parent.relative_to(output_path.parent.parent.parent))
schema_dir_of(output_path) ==
    PathStr(RelativeTo(Parent(output_path), Parent(Parent(Parent(output_path)))))

\* the files written for the scenarios when the result is the single entry
\* "base": the one document at the mirrored path
write_single(scenarios, rel_path) ==
    rel_path :> clean_schema_for_codegen(scenarios["base"]).output

\* the base document at the mirrored path and one file per scenario beside it
write_base_and_scenarios(schema, scenarios, rel_path) ==
    LET dir == Parent(SplitSlash(rel_path))
        base_name == Stem(FileName(rel_path))
        names == {InDir(dir, base_name \o "_" \o sc \o "_request.json") : sc \in DOMAIN scenarios}
    IN  [path \in names \cup {rel_path} |->
            IF path = rel_path /\ path \notin names
            THEN clean_schema_for_codegen(schema).output
            ELSE LET sc == CHOOSE x \in DOMAIN scenarios :
                               path = InDir(dir, base_name \o "_" \o x \o "_request.json")
                 IN  clean_schema_for_codegen(scenarios[sc]).output]

\* preprocess_schema_file for the input file at rel_path below the input
\* root, written below out_dir.  The result is [schema_dir, base, scenarios,
\* writes]: the directory handed to the scenario generator, the pruned and
\* flattened document, the generator's result and the files written.
preprocess_schema_file(file, rel_path, out_dir, with_scenarios, hash_order) ==
    LET output_path == out_dir \o SplitSlash(rel_path)
        input_dir_abs == Cwd \o "/" \o JoinSlash(Parent(output_path))
        loaded == IF FileName(rel_path) = "ucp.json"
                  THEN force_absolute_refs(file.schema, input_dir_abs)
                  ELSE file.schema
        pruned == remove_extension_defs(loaded)
        order == SelectSeq(file.defs_order, LAMBDA n : n \in DefKeysOf(pruned))
        schema == flatten_allof_in_defs(pruned, order, hash_order)
        base_name == Stem(FileName(rel_path))
        schema_dir == schema_dir_of(output_path)
        scenarios == process_ucp_request_scenarios(schema, base_name, with_scenarios, schema_dir)
    IN  [schema_dir |-> schema_dir,
         base |-> schema,
         scenarios |-> DOMAIN scenarios,
         writes |-> IF Cardinality(DOMAIN scenarios) = 1 /\ "base" \in DOMAIN scenarios
                    THEN write_single(scenarios, rel_path)
                    ELSE write_base_and_scenarios(schema, scenarios, rel_path)]

\* the first pass's test of one document
has_scenarios(schema) ==
    /\ Has(schema, "properties")
    /\ \E p \in Keys(Get(schema, "properties")) :
         LET prop_schema == Get(schema, "properties").v[p]
         IN  HasAnnotation(prop_schema) /\ IsDict(Get(prop_schema, "ucp_request"))

(***************************************************************************)
(* The driver specification: one run of preprocess_schemas                 *)
(***************************************************************************)
MaxDirDepth == 3

\* a directory `depth` levels below the input root
DirOfDepth(depth) == [i \in 1..depth |-> IF i = depth THEN "shopping" ELSE "schemas"]

AnnotatedProp(a) == Dict(("type" :> Str("string")) @@ ("ucp_request" :> a))

CheckoutDocs ==
    { Dict(("$id" :> Str("https://ucp.dev/schemas/shopping/checkout.json"))
           @@ ("title" :> Str("Checkout"))
           @@ ("properties" :>
                 Dict(("id" :> AnnotatedProp(Dict(("create" :> Str("omit")) @@ ("update" :> Str("required")))))
                      @@ ("item" :> Ref("item.json"))))
           @@ ("required" :> StrList(<<"id">>))
           @@ ("$defs" :>
                 Dict(("Ext" :> AllOf(<<Ref("../ucp.json"), Props({"e"})>>))
                      @@ ("A" :> AllOf(<<Ref("#/$defs/B")>>))
                      @@ ("B" :> Props({"x"}))))),
      Dict(("title" :> Str("Checkout"))
           @@ ("properties" :>
                 Dict(("id" :> AnnotatedProp(Dict("base" :> Str("omit"))))
                      @@ ("item" :> Ref("item.json"))))
           @@ ("required" :> StrList(<<"id">>))),
      Dict(("$schema" :> Str("https://json-schema.org/draft/2020-12/schema"))
           @@ ("properties" :> Dict("item" :> Ref("item.json")))) }

ItemDocs ==
    { Dict("properties" :> Dict("sku" :> AnnotatedProp(Dict("create" :> Str("required"))))),
      Dict("properties" :> Dict("sku" :> AnnotatedProp(Dict(("create" :> Str("required"))
                                                            @@ ("update" :> Str("optional")))))),
      Dict("properties" :> Dict("sku" :> AnnotatedProp(EmptyDict))),
      Dict("properties" :> Dict("sku" :> AnnotatedProp(Str("required")))) }

UcpDoc ==
    Dict(("title" :> Str("UCP"))
         @@ ("properties" :> Dict(("services" :> Ref("service.json"))
                                  @@ ("version" :> Dict("type" :> Str("string"))))))

InputFile(schema) == [schema |-> schema, defs_order |-> KeySeq(DefKeysOf(schema))]

\* two sibling documents in one directory, with or without ucp.json at the root
InputTrees ==
    { LET dir == DirOfDepth(depth)
          pair == (InDir(dir, "checkout.json") :> InputFile(c))
                  @@ (InDir(dir, "item.json") :> InputFile(i))
      IN  IF with_ucp THEN pair @@ ("ucp.json" :> InputFile(UcpDoc)) ELSE pair :
        depth \in 0..MaxDirDepth, c \in CheckoutDocs, i \in ItemDocs, with_ucp \in BOOLEAN }

\* script_dir / "temp_schemas", the script run from its directory or from
\* the directory above
OutputDirs == {<<"temp_schemas">>, <<"sdk", "temp_schemas">>}

NoFiles == [path \in {} |-> EmptyDict]
StaleOutputs == {NoFiles, "stale.json" :> Dict("title" :> Str("stale"))}

DriverInit ==
    /\ call = Idle
    /\ ret = NotReturned
    /\ files \in InputTrees
    /\ output_dir \in OutputDirs
    /\ output_files \in StaleOutputs
    /\ schemas_with_scenarios = {}
    /\ pending = {}
    /\ phase = "start"
    /\ trace = NoFiles

\* shutil.rmtree, mkdir and rglob: the output tree is empty, every input
\* file is listed
CleanOutputDir ==
    /\ phase = "start"
    /\ output_files' = NoFiles
    /\ pending' = DOMAIN files
    /\ phase' = "pass1"
    /\ UNCHANGED <<call, ret, files, output_dir, schemas_with_scenarios, trace>>

\* one iteration of the first pass
FirstPassStep ==
    /\ phase = "pass1"
    /\ \E rel_path \in pending :
        /\ schemas_with_scenarios' =
             IF has_scenarios(files[rel_path].schema)
             THEN schemas_with_scenarios \cup {rel_path}
             ELSE schemas_with_scenarios
        /\ pending' = pending \ {rel_path}
    /\ UNCHANGED <<call, ret, files, output_dir, output_files, phase, trace>>

FirstPassDone ==
    /\ phase = "pass1" /\ pending = {}
    /\ phase' = "pass2"
    /\ pending' = DOMAIN files
    /\ UNCHANGED <<call, ret, files, output_dir, output_files, schemas_with_scenarios, trace>>

\* one iteration of the second pass: preprocess_schema_file
SecondPassStep ==
    /\ phase = "pass2"
    /\ \E rel_path \in pending, hash_order \in HashOrders :
        LET r == preprocess_schema_file(files[rel_path], rel_path, output_dir,
                                        schemas_with_scenarios, hash_order)
        IN  /\ output_files' = r.writes @@ output_files
            /\ trace' = (rel_path :> [schema_dir |-> r.schema_dir, base |-> r.base,
                                      scenarios |-> r.scenarios, written |-> DOMAIN r.writes])
                        @@ trace
            /\ pending' = pending \ {rel_path}
    /\ UNCHANGED <<call, ret, files, output_dir, schemas_with_scenarios, phase>>

SecondPassDone ==
    /\ phase = "pass2" /\ pending = {}
    /\ phase' = "done"
    /\ UNCHANGED <<call, ret, files, output_dir, output_files, schemas_with_scenarios, pending, trace>>

DriverNext ==
    \/ CleanOutputDir
    \/ FirstPassStep
    \/ FirstPassDone
    \/ SecondPassStep
    \/ SecondPassDone

DriverSpec == DriverInit /\ [][DriverNext]_vars

(***************************************************************************)
(* Properties of the driver specification                                  *)
(***************************************************************************)
\* the "$ref" strings anywhere inside x
RECURSIVE RefStrings(_)
RefStrings(x) ==
    IF x.t = "dict" THEN
        UNION {IF k = "$ref" /\ x.v[k].t = "str" THEN {x.v[k].v} ELSE RefStrings(x.v[k]) :
               k \in DOMAIN x.v}
    ELSE IF x.t = "list" THEN UNION {RefStrings(x.v[i]) : i \in DOMAIN x.v}
    ELSE {}

DirOf(rel_path) == Parent(SplitSlash(rel_path))
ScenarioFile(rel_path, s) ==
    InDir(DirOf(rel_path), Stem(FileName(rel_path)) \o "_" \o s \o "_request.json")
WithoutIdAndSchema(doc) == Dict([k \in Keys(doc) \ {"$id", "$schema"} |-> doc.v[k]])

\* C6: the file at the mirrored output path is the pruned and flattened base
\* document with only the top-level $id/$schema stripped (no scenario
\* rewriting), and when scenarios were produced exactly one more file per
\* scenario is written at <base-name>_<scenario>_request.json beside it, for
\* every scenario name, "base" included.
C6_BaseDocumentAndOneFilePerScenario ==
    \A f \in DOMAIN trace :
        /\ f \in DOMAIN output_files
        /\ output_files[f] = WithoutIdAndSchema(trace[f].base)
        /\ trace[f].written =
             {f} \cup {ScenarioFile(f, s) : s \in ObservedKeys(trace[f].base)}

\* C9: the directory handed to the scenario generator is the document's
\* directory relative to the input root, at every depth; so no scenario
\* document keeps an unrewritten reference '<sibling>.json' to a sibling in
\* the membership set.
C9_SchemaDirIsDirectoryBelowInputRoot ==
    \A f \in DOMAIN trace :
        /\ trace[f].schema_dir = PathStr(DirOf(f))
        /\ \A o \in trace[f].written \ {f} :
             \A r \in RefStrings(output_files[o]) :
                 ~(/\ endswith(r, ".json")
                   /\ ~contains(r, "/")
                   /\ InDir(DirOf(f), r) \in schemas_with_scenarios)

\* C10: after a complete run every $ref rewritten to
\* '<name>_<scenario>_request.json' in a written document names a file the
\* run wrote.
C10_RewrittenRefsNameWrittenFiles ==
    phase = "done" =>
        \A o \in DOMAIN output_files :
            \A r \in RefStrings(output_files[o]) :
                endswith(r, "_request.json") =>
                    NormalizedPath(PathStr(DirOf(o)), r) \in DOMAIN output_files

====
